---- MODULE Spec2Model ----
(***************************************************************************)
(* Model of the workspace analytics engine (src/src/analytics.py).         *)
(*                                                                         *)
(* An engine is constructed from a page list and a user map, normalizes    *)
(* the pages once (_prepare_dataframe) and then answers analyzer calls.    *)
(* Every analyzer is a function of the normalized dataset, the user map,   *)
(* the configuration and - for the growth analyzer - the wall clock.       *)
(*                                                                         *)
(* Time is counted in units of 1/UnitsPerDay day since 2020-01-01 00:00.   *)
(* Python floats are modelled where their rounding decides a result (the   *)
(* bus factor accumulation); elsewhere a quotient is kept as an exact      *)
(* fraction and rounded the way round(x, ndigits) rounds it.               *)
(***************************************************************************)
EXTENDS Integers, Sequences, FiniteSets, TLC

VARIABLES
    users,      \* self.users: the user ids in the map's iteration order
    pages,      \* the raw page records handed to the constructor
    cfg,        \* the Config class attributes read by the analyzers
    clock,      \* the wall clock (what pd.Timestamp.now() returns)
    df,         \* self.df: the normalized rows, <<>> when the page list is empty
    prepNow,    \* <<now>> for the local 'now' of _prepare_dataframe, <<>> when it never ran
    call,       \* the analyzer method that returned last, "none" before any call
    ret,        \* the value that call returned
    locals      \* named locals of that call which the result does not expose

vars == <<users, pages, cfg, clock, df, prepNow, call, ret, locals>>

----------------------------------------------------------------------------
(* Bounds of the model                                                     *)

MaxPages == 6          \* longest page list of the risk inputs
MaxUsers == 3          \* largest user map
NumIds == 5            \* distinct user identifiers that can author a page
MaxTicks == 2          \* clock advances observed after construction
UnitsPerDay == 2       \* resolution of a timestamp: units per day
SegPages == 3          \* longest page list of the segmentation inputs
SegIds == 2            \* identifiers of the segmentation inputs
CollabPages == 3       \* longest page list of the collaboration inputs
CollabIds == 3         \* identifiers of the collaboration inputs
HealthPages == 3       \* longest page list of the content-health inputs
GrowthPages == 3       \* longest page list of the growth inputs
AllPages == 3          \* longest page list of the whole-run inputs
ScorePages == 4        \* longest page list of the collaboration-score inputs
CostCreators == 7      \* distinct page creators of the cost inputs
ConcUsers == 20        \* largest user map of the concentration inputs
ConcPages == 10        \* longest page list of the concentration inputs
FramePages == 2        \* longest page list of the call-sequence inputs
ParsePages == 2        \* longest page list of the raw-timestamp inputs
EnrichPages == 6       \* longest page id list handed to enrich_pages

----------------------------------------------------------------------------
(* Generic helpers                                                         *)

Max(a, b) == IF a >= b THEN a ELSE b

Min(a, b) == IF a <= b THEN a ELSE b

Abs(a) == IF a >= 0 THEN a ELSE -a

RECURSIVE SumSeq(_)
SumSeq(s) == IF s = <<>> THEN 0 ELSE Head(s) + SumSeq(Tail(s))

RECURSIVE Pow2(_)
Pow2(n) == IF n = 0 THEN 1 ELSE 2 * Pow2(n - 1)

Zeros(n) == [i \in 1..n |-> 0]

\* floor(num / den) for den > 0 and any sign of num
FloorDiv(num, den) == IF num >= 0 THEN num \div den ELSE -((-num + den - 1) \div den)

----------------------------------------------------------------------------
(* IEEE-754 binary64 arithmetic on non-negative values.                    *)
(* A float is [bits, exp]: bits is the 53-bit significand, most            *)
(* significant bit first and equal to 1, exp the binary exponent of the    *)
(* last bit; zero is [bits |-> <<>>, exp |-> 0].  Bit strings are split in *)
(* halves so that no evaluation nests deeper than the logarithm of their   *)
(* length.                                                                 *)

MantBits == 53

FZero == [bits |-> <<>>, exp |-> 0]

RECURSIVE BitsToNat(_)
BitsToNat(b) ==
    IF Len(b) = 0 THEN 0
    ELSE IF Len(b) = 1 THEN b[1]
    ELSE LET h == Len(b) \div 2
         IN  BitsToNat(SubSeq(b, 1, h)) * Pow2(Len(b) - h) + BitsToNat(SubSeq(b, h + 1, Len(b)))

RECURSIVE NatToBits(_)
NatToBits(n) == IF n = 0 THEN <<>> ELSE Append(NatToBits(n \div 2), n % 2)

\* the k-bit string of q < 2^k
PadBits(q, k) == [i \in 1..k |-> (q \div Pow2(k - i)) % 2]

\* a * m + b + c over bit strings a, b of equal length: the low Len(a) bits
\* and the carry out
\* (the carry of the lower half is evaluated before the upper half starts)
RECURSIVE MulAddC(_, _, _, _)
MulAddC(a, m, b, c) ==
    IF Len(a) = 0 THEN [s |-> <<>>, c |-> c]
    ELSE IF Len(a) = 1
         THEN LET v == a[1] * m + b[1] + c IN [s |-> <<v % 2>>, c |-> v \div 2]
    ELSE LET h == Len(a) \div 2
             lo == MulAddC(SubSeq(a, h + 1, Len(a)), m, SubSeq(b, h + 1, Len(b)), c)
         IN  IF lo.c < 0 THEN lo
             ELSE LET hi == MulAddC(SubSeq(a, 1, h), m, SubSeq(b, 1, h), lo.c)
                  IN  [s |-> hi.s \o lo.s, c |-> hi.c]

\* b + 1 on a bit string; the result is one bit longer when b is all ones
IncBits(b) ==
    LET r == MulAddC(b, 1, Zeros(Len(b)), 1) IN NatToBits(r.c) \o r.s

\* b * m for a small natural m
MulBits(b, m) ==
    LET r == MulAddC(b, m, Zeros(Len(b)), 0) IN NatToBits(r.c) \o r.s

\* a + b for bit strings of equal length
AddBits(a, b) ==
    LET r == MulAddC(a, 1, b, 0) IN NatToBits(r.c) \o r.s

StripZeros(b) ==
    IF \A i \in 1..Len(b) : b[i] = 0 THEN <<>>
    ELSE LET first == CHOOSE i \in 1..Len(b) : b[i] = 1 /\ \A j \in 1..(i - 1) : b[j] = 0
         IN  SubSeq(b, first, Len(b))

\* Round the exact value (b * 2^e, plus a non-zero tail below the last bit
\* when sticky) to the nearest binary64, ties to even.
FRound(b0, e, sticky) ==
    LET b == StripZeros(b0)
        L == Len(b)
    IN  IF L = 0 THEN FZero
        ELSE IF L <= MantBits
             THEN [bits |-> b \o Zeros(MantBits - L), exp |-> e - (MantBits - L)]
        ELSE LET keep == SubSeq(b, 1, MantBits)
                 guard == b[MantBits + 1]
                 rest == sticky \/ \E i \in (MantBits + 2)..L : b[i] = 1
                 up == guard = 1 /\ (rest \/ keep[MantBits] = 1)
                 e1 == e + (L - MantBits)
                 inc == IncBits(keep)
             IN  IF ~up THEN [bits |-> keep, exp |-> e1]
                 ELSE IF Len(inc) = MantBits THEN [bits |-> inc, exp |-> e1]
                 ELSE [bits |-> SubSeq(inc, 1, MantBits), exp |-> e1 + 1]

\* Long division of r / t (r < t < 2^15): n chunks of 16 quotient bits each,
\* and the remainder left after them
RECURSIVE DivChunks(_, _, _)
DivChunks(r, t, n) ==
    IF n = 0 THEN [bits |-> <<>>, r |-> r]
    ELSE LET v == r * Pow2(16)
             tl == DivChunks(v % t, t, n - 1)
         IN  [bits |-> PadBits(v \div t, 16) \o tl.bits, r |-> tl.r]

\* x / t for naturals x, t with t > 0 (Python int / int)
FDivInt(x, t) ==
    IF x % t = 0 THEN FRound(NatToBits(x \div t), 0, FALSE)
    ELSE LET d == DivChunks(x % t, t, 5)
         IN  FRound(NatToBits(x \div t) \o d.bits, -80, d.r # 0)

\* f * m for a small natural m
FMulInt(f, m) == IF f.bits = <<>> THEN FZero ELSE FRound(MulBits(f.bits, m), f.exp, FALSE)

\* f + g
FAdd(f, g) ==
    IF f.bits = <<>> THEN g
    ELSE IF g.bits = <<>> THEN f
    ELSE LET e == Min(f.exp, g.exp)
             a == f.bits \o Zeros(f.exp - e)
             b == g.bits \o Zeros(g.exp - e)
             L == Max(Len(a), Len(b))
         IN  FRound(AddBits(Zeros(L - Len(a)) \o a, Zeros(L - Len(b)) \o b), e, FALSE)

\* Long division of the bit string b by a small natural t, entering with
\* remainder r: the quotient bits and the remainder out
\* (the remainder of the upper half is evaluated before the lower half starts)
RECURSIVE DivBitsC(_, _, _)
DivBitsC(b, t, r) ==
    IF Len(b) = 0 THEN [q |-> <<>>, r |-> r]
    ELSE IF Len(b) = 1
         THEN LET v == 2 * r + b[1] IN [q |-> <<v \div t>>, r |-> v % t]
    ELSE LET h == Len(b) \div 2
             hi == DivBitsC(SubSeq(b, 1, h), t, r)
         IN  IF hi.r < 0 THEN hi
             ELSE LET lo == DivBitsC(SubSeq(b, h + 1, Len(b)), t, hi.r)
                  IN  [q |-> hi.q \o lo.q, r |-> lo.r]

\* f / t for a small natural t > 0
FDivSmall(f, t) ==
    IF f.bits = <<>> THEN FZero
    ELSE LET d == DivBitsC(f.bits \o Zeros(64), t, 0)
         IN  FRound(d.q, f.exp - 64, d.r # 0)

\* the integer nearest to the exact value of m * f, ties to even:
\* round(f, 1) in tenths for m = 10, round(f, 3) in thousandths for m = 1000
FRoundScaled(f, m) ==
    IF f.bits = <<>> THEN 0
    ELSE LET mb == MulBits(f.bits, m)
         IN  IF f.exp >= 0 THEN BitsToNat(mb \o Zeros(f.exp))
             ELSE LET k == -f.exp
                      b == Zeros(Max(0, k + 1 - Len(mb))) \o mb
                      L == Len(b)
                      q == BitsToNat(StripZeros(SubSeq(b, 1, L - k)))
                      guard == b[L - k + 1]
                      rest == \E i \in (L - k + 2)..L : b[i] = 1
                  IN  IF guard = 1 /\ (rest \/ q % 2 = 1) THEN q + 1 ELSE q

\* Python's round(f, 1) on a float, in tenths
FRoundTenths(f) == FRoundScaled(f, 10)

\* numpy's round(f, decimals) on a float64, in units of 1 / m for
\* m = 10^decimals: rint(f * m), the product rounded to binary64 first
NpRoundScaled(f, m) == FRoundScaled(FMulInt(f, m), 1)

\* f - g: the sign and the magnitude of the difference
FSub(f, g) ==
    LET e == Min(IF f.bits = <<>> THEN g.exp ELSE f.exp, IF g.bits = <<>> THEN f.exp ELSE g.exp)
        a0 == IF f.bits = <<>> THEN <<>> ELSE f.bits \o Zeros(f.exp - e)
        b0 == IF g.bits = <<>> THEN <<>> ELSE g.bits \o Zeros(g.exp - e)
        L == Max(Len(a0), Len(b0))
        a == Zeros(L - Len(a0)) \o a0
        b == Zeros(L - Len(b0)) \o b0
        ab == MulAddC(a, 1, [i \in 1..L |-> 1 - b[i]], 1)
        ba == MulAddC(b, 1, [i \in 1..L |-> 1 - a[i]], 1)
    IN  IF ab.c = 1 THEN [neg |-> FALSE, abs |-> FRound(ab.s, e, FALSE)]
        ELSE [neg |-> TRUE, abs |-> FRound(ba.s, e, FALSE)]

\* the binary64 nearest to tenths / 10 (the float round(x, 1) returns)
FFromTenths(tenths) == FDivInt(tenths, 10)

\* floor(f) for f below 2^31
FFloor(f) ==
    IF f.bits = <<>> THEN 0
    ELSE IF f.exp >= 0 THEN BitsToNat(f.bits \o Zeros(f.exp))
    ELSE BitsToNat(SubSeq(f.bits, 1, MantBits + f.exp))

\* f >= n for a natural n
FGeInt(f, n) == FFloor(f) >= n

----------------------------------------------------------------------------
(* Calendar: a timestamp t is t \div UnitsPerDay whole days after 1 January *)
(* of the analysis start year plus t % UnitsPerDay units into that day.    *)

CHECKPOINT_EVERY == 1000

ANALYSIS_START_YEAR == 2020

IsLeap(y) == (y % 4 = 0 /\ y % 100 # 0) \/ y % 400 = 0

DaysInYear(y) == IF IsLeap(y) THEN 366 ELSE 365

DaysInMonth(y, m) ==
    IF m = 2 THEN (IF IsLeap(y) THEN 29 ELSE 28)
    ELSE IF m \in {4, 6, 9, 11} THEN 30 ELSE 31

RECURSIVE DaysBeforeYear(_)
DaysBeforeYear(y) == IF y <= ANALYSIS_START_YEAR THEN 0 ELSE DaysBeforeYear(y - 1) + DaysInYear(y - 1)

RECURSIVE DaysBeforeMonth(_, _)
DaysBeforeMonth(y, m) == IF m <= 1 THEN 0 ELSE DaysBeforeMonth(y, m - 1) + DaysInMonth(y, m - 1)

\* the timestamp of day d of month m of year y, rem units into the day
FromCivil(y, m, d, rem) == (DaysBeforeYear(y) + DaysBeforeMonth(y, m) + d - 1) * UnitsPerDay + rem

RECURSIVE YearFrom(_, _)
YearFrom(d, y) == IF d < DaysInYear(y) THEN [year |-> y, doy |-> d] ELSE YearFrom(d - DaysInYear(y), y + 1)

RECURSIVE MonthFrom(_, _, _)
MonthFrom(d, y, m) ==
    IF d < DaysInMonth(y, m) THEN [month |-> m, day |-> d + 1] ELSE MonthFrom(d - DaysInMonth(y, m), y, m + 1)

\* the calendar fields of a timestamp t >= 0
Civil(t) ==
    LET yd == YearFrom(t \div UnitsPerDay, ANALYSIS_START_YEAR)
        md == MonthFrom(yd.doy, yd.year, 1)
    IN  [year |-> yd.year, month |-> md.month, day |-> md.day, rem |-> t % UnitsPerDay]

\* t - pd.DateOffset(months=n): the same day of the month n months earlier,
\* clipped to the last day of that month, at the same time of day
MinusMonths(t, n) ==
    LET c == Civil(t)
        k == c.year * 12 + (c.month - 1) - n
        y == k \div 12
        m == (k % 12) + 1
    IN  FromCivil(y, m, Min(c.day, DaysInMonth(y, m)), c.rem)

\* Timedelta.days: whole days, rounded towards minus infinity
TimedeltaDays(delta) == FloorDiv(delta, UnitsPerDay)

----------------------------------------------------------------------------
(* Inputs                                                                  *)

Absent == "absent"      \* a key the page dict does not carry
UnknownName == <<"Unknown">>

\* the 'name' of the user record stored under uid
NameOf(uid) == <<"name", uid>>

UserSet(us) == {us[i] : i \in DOMAIN us}

\* a page dict as the tests build it
Page(cb, eb, ct, et, arch, title) ==
    [created_by |-> cb, last_edited_by |-> eb, created_time |-> ct,
     last_edited_time |-> et, archived |-> arch, title |-> title]

\* Config as the environment defaults set it
DefaultCfg ==
    [stale_days |-> 365, very_stale_days |-> 730,
     power |-> 100, active |-> 20, occasional |-> 5,
     monthly_cost |-> 12, hourly_rate |-> 48]

----------------------------------------------------------------------------
(* _prepare_dataframe                                                      *)

\* the buckets with the boundaries taken into the lower bucket
categorize_staleness_inclusive(days) ==
    IF days <= 30 THEN "Active (< 1 month)"
    ELSE IF days <= 90 THEN "Fresh (1-3 months)"
    ELSE IF days <= 180 THEN "Aging (3-6 months)"
    ELSE IF days <= 365 THEN "Stale (6-12 months)"
    ELSE IF days <= 730 THEN "Very Stale (12-24 months)"
    ELSE "Dead (24+ months)"

categorize_staleness(days) ==
    IF days < 30 THEN "Active (< 1 month)"
    ELSE IF days < 90 THEN "Fresh (1-3 months)"
    ELSE IF days < 180 THEN "Aging (3-6 months)"
    ELSE IF days < 365 THEN "Stale (6-12 months)"
    ELSE IF days < 730 THEN "Very Stale (12-24 months)"
    ELSE "Dead (24+ months)"

IsTemplateTitle(title) == title \in {"Sprint Template", "TEMPLATE: notes"}

\* the lookup without the "Unknown" default
ResolveNameNoDefault(us, uid) == NameOf(uid)

ResolveName(us, uid) == IF uid \in UserSet(us) THEN NameOf(uid) ELSE UnknownName

PrepareRow(p, us, now) ==
    LET c == Civil(p.created_time)
        days == TimedeltaDays(now - p.last_edited_time)
    IN  [created_by |-> p.created_by,
         last_edited_by |-> p.last_edited_by,
         created_time |-> p.created_time,
         last_edited_time |-> p.last_edited_time,
         archived |-> p.archived,
         title |-> p.title,
         creator_name |-> ResolveName(us, p.created_by),
         editor_name |-> ResolveName(us, p.last_edited_by),
         created_year |-> c.year,
         created_quarter |-> <<c.year, ((c.month - 1) \div 3) + 1>>,
         created_month |-> <<c.year, c.month>>,
         days_since_edit |-> days,
         staleness |-> categorize_staleness(days),
         is_abandoned |-> p.created_time = p.last_edited_time,
         is_single_owner |-> p.created_by = p.last_edited_by,
         is_template |-> p.title # Absent /\ IsTemplateTitle(p.title)]

RECURSIVE PrepareDataframe(_, _, _)
PrepareDataframe(ps, us, now) ==
    IF ps = <<>> THEN <<>>
    ELSE <<PrepareRow(Head(ps), us, now)>> \o PrepareDataframe(Tail(ps), us, now)

\* pd.to_datetime of one raw value: the text of an instant gives the
\* instant, blank text gives NaT, any other text raises
ToDatetime(x) ==
    IF x.text = "iso" THEN [at |-> x.at]
    ELSE IF x.text = "" THEN [nat |-> TRUE]
    ELSE [raised |-> "ValueError"]

\* the derived row of a page with raw timestamps that did not raise: NaT
\* gives a NaN year and NaN days, 'NaT' period labels, compares below no
\* bucket bound (so the last bucket) and equals nothing
PrepareParsedRow(p, us, now) ==
    LET ct == ToDatetime(p.created_time)
        et == ToDatetime(p.last_edited_time)
        cnat == "nat" \in DOMAIN ct
        enat == "nat" \in DOMAIN et
        base == PrepareRow([p EXCEPT !.created_time = IF cnat THEN now ELSE ct.at,
                                     !.last_edited_time = IF enat THEN now ELSE et.at],
                           us, now)
    IN  [base EXCEPT !.created_time = IF cnat THEN [nat |-> TRUE] ELSE @,
                     !.created_year = IF cnat THEN [nan |-> TRUE] ELSE @,
                     !.created_quarter = IF cnat THEN <<"NaT">> ELSE @,
                     !.created_month = IF cnat THEN <<"NaT">> ELSE @,
                     !.last_edited_time = IF enat THEN [nat |-> TRUE] ELSE @,
                     !.days_since_edit = IF enat THEN [nan |-> TRUE] ELSE @,
                     !.staleness = IF enat THEN "Dead (24+ months)" ELSE @,
                     !.is_abandoned = IF cnat \/ enat THEN FALSE ELSE @]

----------------------------------------------------------------------------
(* Shared dataframe queries                                                *)

Rows(d) == DOMAIN d


\* groupby('created_by').size()
Creators(d) == {d[i].created_by : i \in Rows(d)}

PagesCreatedBy(d, u) == Cardinality({i \in Rows(d) : d[i].created_by = u})

\* round(num / den * 100, 1) in tenths of a percent, truncated instead of
\* rounded
Pct1Truncated(num, den) == (num * 1000) \div den

\* p / t * 100 in binary64, worked out once for the counts a page list of
\* the model can give
PageShareTable == [t \in 1..MaxPages |-> [p \in 1..t |-> FMulInt(FDivInt(p, t), 100)]]

\* num / den * 100 in binary64
PageShare(num, den) ==
    IF den <= MaxPages /\ num \in 1..den THEN PageShareTable[den][num]
    ELSE FMulInt(FDivInt(num, den), 100)

\* round(num / den * 100, 1) of Python numbers, in tenths of a percent
Pct1(num, den) == FRoundTenths(PageShare(num, den))

\* round(num / den * 100, 1) where num is a numpy integer, in tenths
NpPct1(num, den) == NpRoundScaled(PageShare(num, den), 10)

\* the creators with their page counts, largest count first
RECURSIVE SortCountsDesc(_, _)
SortCountsDesc(d, left) ==
    IF left = {} THEN <<>>
    ELSE LET top == CHOOSE u \in left :
                        \A v \in left :
                            \/ PagesCreatedBy(d, u) > PagesCreatedBy(d, v)
                            \/ PagesCreatedBy(d, u) = PagesCreatedBy(d, v) /\ u <= v
         IN  <<[id |-> top, n |-> PagesCreatedBy(d, top)]>> \o SortCountsDesc(d, left \ {top})

RECURSIVE InsertAsc(_, _)
InsertAsc(s, x) ==
    IF s = <<>> THEN <<x>>
    ELSE IF x <= Head(s) THEN <<x>> \o s
    ELSE <<Head(s)>> \o InsertAsc(Tail(s), x)

\* sorted(list)
RECURSIVE SortAsc(_)
SortAsc(s) == IF s = <<>> THEN <<>> ELSE InsertAsc(SortAsc(Tail(s)), Head(s))

\* Series.head(k).sum()
RECURSIVE HeadSum(_, _)
HeadSum(s, k) == IF k <= 0 \/ s = <<>> THEN 0 ELSE Head(s) + HeadSum(Tail(s), k - 1)

\* [0] * k, the empty list when k <= 0
RECURSIVE ZeroList(_)
ZeroList(k) == IF k <= 0 THEN <<>> ELSE <<0>> \o ZeroList(k - 1)

----------------------------------------------------------------------------
(* _analyze_risk                                                           *)

\* max(1, int(total_users * p / 100))
\* int(total_users * p) without the floor of one user
TopCountUnclamped(total_users, p) == (total_users * p) \div 100

TopCount(total_users, p) == Max(1, (total_users * p) \div 100)

Concentration(counts, total_pages, k) ==
    [users |-> k, pages |-> HeadSum(counts, k), percentage |-> NpPct1(HeadSum(counts, k), total_pages)]

RECURSIVE WeightedSum(_, _)
WeightedSum(s, i) == IF s = <<>> THEN 0 ELSE i * Head(s) + WeightedSum(Tail(s), i + 1)

\* round(gini, 3) in thousandths, gini computed in binary64 over the
\* ascending list
Gini(all_pages) ==
    LET n == Len(all_pages)
        total == SumSeq(all_pages)
        diff == FSub(FDivInt(2 * WeightedSum(all_pages, 1), n * total), FDivInt(n + 1, n))
    IN  IF total > 0
        THEN (IF diff.neg THEN -1 ELSE 1) * NpRoundScaled(diff.abs, 1000)
        ELSE 0

\* the loop counting a creator only after the 50% test has failed
RECURSIVE BusFactorLoopLateCount(_, _, _, _)
BusFactorLoopLateCount(counts, total_pages, cumulative_pct, bus_factor) ==
    IF counts = <<>> THEN bus_factor
    ELSE LET share == FMulInt(FDivInt(Head(counts), total_pages), 100)
             cum == FAdd(cumulative_pct, share)
         IN  IF FGeInt(cum, 50) THEN bus_factor
             ELSE BusFactorLoopLateCount(Tail(counts), total_pages, cum, bus_factor + 1)

\* the accumulation loop of the bus factor, in binary64 as the code runs it
RECURSIVE BusFactorLoop(_, _, _, _)
BusFactorLoop(counts, total_pages, cumulative_pct, bus_factor) ==
    IF counts = <<>> THEN bus_factor
    ELSE LET share == PageShare(Head(counts), total_pages)
             cum == FAdd(cumulative_pct, share)
         IN  IF FGeInt(cum, 50) THEN bus_factor + 1
             ELSE BusFactorLoop(Tail(counts), total_pages, cum, bus_factor + 1)

EmptyRisk ==
    [concentration |->
        [top_1_percent |-> [users |-> 0, pages |-> 0, percentage |-> 0],
         top_5_percent |-> [users |-> 0, pages |-> 0, percentage |-> 0],
         top_10_percent |-> [users |-> 0, pages |-> 0, percentage |-> 0]],
     gini_coefficient |-> 0,
     bus_factor |-> 0]

\* the padded list left in descending order
GiniVectorUnsorted(d, us) ==
    LET ppu == SortCountsDesc(d, Creators(d))
        counts == [i \in 1..Len(ppu) |-> ppu[i].n]
    IN  counts \o ZeroList(Len(us) - Len(ppu))

\* the padded, ascending list the Gini coefficient is computed over
GiniVector(d, us) ==
    LET ppu == SortCountsDesc(d, Creators(d))
        counts == [i \in 1..Len(ppu) |-> ppu[i].n]
    IN  IF Len(ppu) > 0
        THEN SortAsc(counts \o ZeroList(Len(us) - Len(ppu)))
        ELSE <<>>

\* percentages are in tenths, the Gini coefficient in thousandths
AnalyzeRisk(d, us) ==
    IF d = <<>> THEN EmptyRisk
    ELSE LET ppu == SortCountsDesc(d, Creators(d))
             counts == [i \in 1..Len(ppu) |-> ppu[i].n]
             total_pages == Len(d)
             total_users == Len(us)
             top10 == {ppu[i].id : i \in 1..Min(10, Len(ppu))}
         IN  [concentration |->
                 [top_1_percent |-> Concentration(counts, total_pages, TopCount(total_users, 1)),
                  top_5_percent |-> Concentration(counts, total_pages, TopCount(total_users, 5)),
                  top_10_percent |-> Concentration(counts, total_pages, TopCount(total_users, 10))],
              gini_coefficient |-> IF Len(ppu) > 0 THEN Gini(GiniVector(d, us)) ELSE 0,
              bus_factor |-> BusFactorLoop(counts, total_pages, FZero, 0),
              single_owner_pages_top_10 |->
                  Cardinality({i \in Rows(d) : d[i].is_single_owner /\ d[i].created_by \in top10})]

----------------------------------------------------------------------------
(* _analyze_users                                                          *)

MinCreated(d, u) ==
    CHOOSE t \in {d[i].created_time : i \in {j \in Rows(d) : d[j].created_by = u}} :
        \A i \in Rows(d) : d[i].created_by = u => t <= d[i].created_time

MaxCreated(d, u) ==
    CHOOSE t \in {d[i].created_time : i \in {j \in Rows(d) : d[j].created_by = u}} :
        \A i \in Rows(d) : d[i].created_by = u => t >= d[i].created_time

\* the rate without the one-year floor on the divisor
CalculateAnnualRateNoFloor(d, u) ==
    IF u \notin Creators(d) THEN [num |-> 0, den |-> 1]
    ELSE LET pgs == PagesCreatedBy(d, u)
             days == TimedeltaDays(MaxCreated(d, u) - MinCreated(d, u))
         IN  IF days > 0
             THEN [num |-> pgs * 1461, den |-> 4 * days]
             ELSE [num |-> pgs, den |-> 1]

\* calculate_annual_rate: pages / max(days / 365.25, 1.0) as the fraction
\* num / den; days / 365.25 exceeds 1.0 exactly when 4 * days > 1461
CalculateAnnualRate(d, u) ==
    IF u \notin Creators(d) THEN [num |-> 0, den |-> 1]
    ELSE LET pgs == PagesCreatedBy(d, u)
             days == TimedeltaDays(MaxCreated(d, u) - MinCreated(d, u))
         IN  IF 4 * days > 1461
             THEN [num |-> pgs * 1461, den |-> 4 * days]
             ELSE [num |-> pgs, den |-> 1]

\* annual_rate >= threshold
RateGe(r, threshold) == r.num >= threshold * r.den

\* the chain with strict comparisons at the thresholds
ClassifyStrict(r, c) ==
    IF r.num > c.power * r.den THEN "power_creators"
    ELSE IF r.num > c.active * r.den THEN "active_creators"
    ELSE IF r.num > c.occasional * r.den THEN "occasional_creators"
    ELSE IF r.num > 0 THEN "minimal_creators"
    ELSE "non_creators"

\* the if / elif chain of the segmentation loop
Classify(r, c) ==
    IF RateGe(r, c.power) THEN "power_creators"
    ELSE IF RateGe(r, c.active) THEN "active_creators"
    ELSE IF RateGe(r, c.occasional) THEN "occasional_creators"
    ELSE IF r.num > 0 THEN "minimal_creators"
    ELSE "non_creators"

ZeroSegments ==
    [power_creators |-> 0, active_creators |-> 0, occasional_creators |-> 0,
     minimal_creators |-> 0, non_creators |-> 0]

\* the chain written with independent ifs: a user is counted in every tier
\* whose test passes
SegmentStepIndependentIfs(acc, d, c, u) ==
    LET r == CalculateAnnualRate(d, u)
        hit == [seg \in DOMAIN ZeroSegments |->
                   IF seg = "power_creators" THEN RateGe(r, c.power)
                   ELSE IF seg = "active_creators" THEN RateGe(r, c.active)
                   ELSE IF seg = "occasional_creators" THEN RateGe(r, c.occasional)
                   ELSE IF seg = "minimal_creators" THEN r.num > 0
                   ELSE ~(r.num > 0)]
    IN  [segments |-> [seg \in DOMAIN ZeroSegments |->
                          acc.segments[seg] + (IF hit[seg] THEN 1 ELSE 0)],
         pages_by_segment |-> acc.pages_by_segment]

\* one iteration of 'for user_id in self.users.keys()'
SegmentStep(acc, d, c, u) ==
    LET seg == Classify(CalculateAnnualRate(d, u), c)
    IN  [segments |-> [acc.segments EXCEPT ![seg] = @ + 1],
         pages_by_segment |->
             IF seg = "non_creators" THEN acc.pages_by_segment
             ELSE [acc.pages_by_segment EXCEPT ![seg] = @ + PagesCreatedBy(d, u)]]

RECURSIVE SegmentLoop(_, _, _, _)
SegmentLoop(us, acc, d, c) ==
    IF us = <<>> THEN acc
    ELSE SegmentLoop(Tail(us), SegmentStep(acc, d, c, Head(us)), d, c)

\* the segmentation without the early return for an empty dataframe
AnalyzeUsersNoEarlyReturn(d, us, c) ==
    LET r == SegmentLoop(us, [segments |-> ZeroSegments, pages_by_segment |-> ZeroSegments], d, c)
    IN  [segments |-> r.segments,
         pages_by_segment |-> r.pages_by_segment,
         active_creator_percentage |->
             IF Len(us) > 0 THEN Pct1(Len(us) - r.segments.non_creators, Len(us)) ELSE 0]

AnalyzeUsers(d, us, c) ==
    IF d = <<>>
    THEN [power_creators |-> 0, active_creators |-> 0, occasional_creators |-> 0,
          minimal_creators |-> 0, non_creators |-> Len(us)]
    ELSE LET r == SegmentLoop(us, [segments |-> ZeroSegments, pages_by_segment |-> ZeroSegments], d, c)
             total_users == Len(us)
             active_creators == total_users - r.segments.non_creators
         IN  [segments |-> r.segments,
              pages_by_segment |-> r.pages_by_segment,
              active_creator_percentage |->
                  IF total_users > 0 THEN Pct1(active_creators, total_users) ELSE 0]

\* the rate and the branch taken for each user the loop visited
UsersLocals(d, us, c) ==
    LET visited == IF d = <<>> THEN {} ELSE UserSet(us)
    IN  [annual_rate |-> [u \in visited |-> CalculateAnnualRate(d, u)],
         segment |-> [u \in visited |-> Classify(CalculateAnnualRate(d, u), c)]]

----------------------------------------------------------------------------
(* _analyze_collaboration                                                  *)

\* the entry with the score taken over all the pages the user last edited
CollabResultAllEdits(d, u) ==
    LET created_pages == PagesCreatedBy(d, u)
        edited_pages == Cardinality({i \in Rows(d) : d[i].last_edited_by = u})
    IN  [user_id |-> u,
         name |-> NameOf(u),
         pages_created |-> created_pages,
         others_pages_edited |-> edited_pages,
         collaboration_score |->
             IF created_pages > 0 THEN FRoundTenths(PageShare(edited_pages, created_pages)) ELSE 0]

\* one iteration of 'for user_id, user_info in self.users.items()';
\* collaboration_score is in tenths
CollabResult(d, u) ==
    LET created_pages == PagesCreatedBy(d, u)
        others_pages == Cardinality({i \in Rows(d) : d[i].last_edited_by = u /\ d[i].created_by # u})
    IN  [user_id |-> u,
         name |-> NameOf(u),
         pages_created |-> created_pages,
         others_pages_edited |-> others_pages,
         collaboration_score |->
             IF created_pages > 0
             THEN FRoundTenths(PageShare(others_pages, created_pages))
             ELSE 0]

\* insertion putting x in front of the elements of equal score
RECURSIVE InsertBeforeEqualScores(_, _)
InsertBeforeEqualScores(s, x) ==
    IF s = <<>> THEN <<x>>
    ELSE IF Head(s).collaboration_score > x.collaboration_score
         THEN <<Head(s)>> \o InsertBeforeEqualScores(Tail(s), x)
    ELSE <<x>> \o s

\* insertion keeping the order of equal scores: x goes behind every element
\* whose score is at least its own
RECURSIVE InsertByScore(_, _)
InsertByScore(s, x) ==
    IF s = <<>> THEN <<x>>
    ELSE IF Head(s).collaboration_score >= x.collaboration_score
         THEN <<Head(s)>> \o InsertByScore(Tail(s), x)
    ELSE <<x>> \o s

\* results.sort(key=collaboration_score, reverse=True), a stable sort
RECURSIVE SortByScoreDesc(_, _)
SortByScoreDesc(done, rest) ==
    IF rest = <<>> THEN done
    ELSE SortByScoreDesc(InsertByScore(done, Head(rest)), Tail(rest))

\* sum(...) of the scores as floats, left to right
RECURSIVE ScoreSum(_, _)
ScoreSum(rs, acc) ==
    IF rs = <<>> THEN acc
    ELSE ScoreSum(Tail(rs), FAdd(acc, FFromTenths(Head(rs).collaboration_score)))

\* every entry, creators or not
ActiveUsersUnfiltered(results) == results

\* [r for r in results if r['pages_created'] > 0]
ActiveUsers(results) == SelectSeq(results, LAMBDA r : r.pages_created > 0)

\* pages whose creator_name differs from their editor_name
CollaboratedPagesByName(d) ==
    Cardinality({i \in Rows(d) : d[i].creator_name # d[i].editor_name})

\* len(df[df['created_by'] != df['last_edited_by']])
CollaboratedPages(d) ==
    Cardinality({i \in Rows(d) : d[i].created_by # d[i].last_edited_by})

\* len(df[df['created_by'] == df['last_edited_by']])
SingleOwnerPages(d) ==
    Cardinality({i \in Rows(d) : d[i].created_by = d[i].last_edited_by})

AnalyzeCollaboration(d, us) ==
    IF d = <<>>
    THEN [user_scores |-> <<>>, avg_collaboration_score |-> 0,
          high_collaborators |-> 0, siloed_creators |-> Len(us)]
    ELSE LET results == SortByScoreDesc(<<>>, [i \in 1..Len(us) |-> CollabResult(d, us[i])])
             active_users == ActiveUsers(results)
             avg_score == IF active_users # <<>>
                          THEN FDivSmall(ScoreSum(active_users, FZero), Len(active_users))
                          ELSE FZero
         IN  [top_collaborators |-> SubSeq(results, 1, Min(10, Len(results))),
              average_collaboration_score |-> FRoundTenths(avg_score),
              collaborated_pages |-> CollaboratedPages(d),
              single_owner_pages |-> SingleOwnerPages(d),
              collaboration_percentage |->
                  IF Len(d) > 0 THEN Pct1(CollaboratedPages(d), Len(d)) ELSE 0]

----------------------------------------------------------------------------
(* _analyze_content_health                                                 *)

\* Series.value_counts().to_dict() / groupby(col).size().to_dict():
\* the values present, each with the number of rows carrying it
ValueCounts(d, rows, col) ==
    [v \in {d[i][col] : i \in rows} |-> Cardinality({i \in rows : d[i][col] = v})]

\* groupby('created_by').size().nlargest(10).index
TopCreatorIds(d) ==
    LET ppu == SortCountsDesc(d, Creators(d))
    IN  {ppu[i].id : i \in 1..Min(10, Len(ppu))}

\* len(self.df[self.df.get('archived', False)]): without the column the
\* lookup is df[False]; a column with holes is no boolean mask
ArchivedPages(d) ==
    IF \A i \in Rows(d) : d[i].archived = Absent THEN [raised |-> "KeyError"]
    ELSE IF \E i \in Rows(d) : d[i].archived = Absent THEN [raised |-> "ValueError"]
    ELSE [count |-> Cardinality({i \in Rows(d) : d[i].archived = "true"})]

AnalyzeContentHealth(d) ==
    IF d = <<>>
    THEN [staleness_distribution |-> <<>>, stale_pages |-> 0, very_stale_pages |-> 0,
          abandoned_pages |-> 0, single_owner_pages |-> 0,
          stale_percentage |-> 0, abandoned_percentage |-> 0]
    ELSE LET stale_pages == Cardinality({i \in Rows(d) : d[i].days_since_edit >= 365})
             very_stale_pages == Cardinality({i \in Rows(d) : d[i].days_since_edit >= 730})
             abandoned_pages == Cardinality({i \in Rows(d) : d[i].is_abandoned})
             archived == ArchivedPages(d)
             total_pages == Len(d)
         IN  IF "raised" \in DOMAIN archived THEN archived
             ELSE [staleness_distribution |-> ValueCounts(d, Rows(d), "staleness"),
                   stale_pages |-> stale_pages,
                   stale_percentage |-> Pct1(stale_pages, total_pages),
                   very_stale_pages |-> very_stale_pages,
                   very_stale_percentage |-> Pct1(very_stale_pages, total_pages),
                   abandoned_pages |-> abandoned_pages,
                   abandoned_percentage |-> Pct1(abandoned_pages, total_pages),
                   abandoned_by_top_creators |->
                       Cardinality({i \in Rows(d) : d[i].is_abandoned /\ d[i].created_by \in TopCreatorIds(d)}),
                   archived_pages |-> archived.count]

----------------------------------------------------------------------------
(* _analyze_growth                                                         *)

\* sorted(keys)
RECURSIVE SortedKeys(_)
SortedKeys(S) ==
    IF S = {} THEN <<>>
    ELSE LET lo == CHOOSE x \in S : \A y \in S : x <= y
         IN  <<lo>> \o SortedKeys(S \ {lo})

\* round((curr - prev) / prev * 100, 1) in tenths
GrowthRate(curr, prev) ==
    IF curr >= prev THEN Pct1(curr - prev, prev) ELSE -Pct1(prev - curr, prev)

\* the rows created at or after the start of the trailing window
RecentRows(d, now) == {i \in Rows(d) : d[i].created_time >= MinusMonths(now, 12)}

\* groupby('created_month').size().mean() rounded to one decimal, in
\* tenths; the mean of no months is NaN
AvgMonthly(monthly) ==
    IF DOMAIN monthly = {} THEN [nan |-> TRUE]
    ELSE LET months == SortedKeys({m[1] * 12 + m[2] : m \in DOMAIN monthly})
             sizes == [i \in 1..Len(months) |-> monthly[<<(months[i] - 1) \div 12, ((months[i] - 1) % 12) + 1>>]]
         IN  [nan |-> FALSE,
              tenths |-> NpRoundScaled(FDivInt(SumSeq(sizes), Len(sizes)), 10)]

\* now is the value pd.Timestamp.now() returns inside the analyzer
AnalyzeGrowth(d, now) ==
    IF d = <<>>
    THEN [annual_counts |-> <<>>, yoy_growth |-> <<>>, quarterly_latest_year |-> <<>>,
          monthly_last_12 |-> <<>>, avg_monthly_pages |-> [nan |-> FALSE, tenths |-> 0]]
    ELSE LET annual_counts == ValueCounts(d, Rows(d), "created_year")
             years == SortedKeys(DOMAIN annual_counts)
             latest_year == years[Len(years)]
             monthly_data == ValueCounts(d, RecentRows(d, now), "created_month")
         IN  [annual_counts |-> annual_counts,
              yoy_growth |->
                  [y \in {years[i] : i \in 2..Len(years)} |->
                      LET i == CHOOSE j \in 2..Len(years) : years[j] = y
                      IN  GrowthRate(annual_counts[years[i]], annual_counts[years[i - 1]])],
              quarterly_latest_year |->
                  ValueCounts(d, {i \in Rows(d) : d[i].created_year = latest_year}, "created_quarter"),
              monthly_last_12 |-> monthly_data,
              avg_monthly_pages |-> AvgMonthly(monthly_data)]

----------------------------------------------------------------------------
(* _analyze_summary, _analyze_top_creators, _analyze_costs,                *)
(* _analyze_structure, run_all                                             *)

\* num / den in hundredths, the digits after the second dropped
Ratio2Truncated(num, den) == (num * 100) \div den

\* round(num / den, 2) of Python numbers, in hundredths
Ratio2(num, den) == FRoundScaled(FDivInt(num, den), 100)

\* stale_percentage is in tenths, cost_per_active_user in hundredths
AnalyzeSummary(d, us, c) ==
    LET total_pages == Len(d)
        total_users == Len(us)
        active_contributors == Cardinality(Creators(d))
        stale_pages == Cardinality({i \in Rows(d) : d[i].days_since_edit >= 365})
        annual_cost == total_users * c.monthly_cost * 12
    IN  [total_pages |-> total_pages,
         total_users |-> total_users,
         active_contributors |-> active_contributors,
         inactive_users |-> total_users - active_contributors,
         stale_pages |-> stale_pages,
         stale_percentage |-> IF total_pages > 0 THEN Pct1(stale_pages, total_pages) ELSE 0,
         annual_cost |-> annual_cost,
         cost_per_active_user |->
             IF active_contributors > 0 THEN Ratio2(annual_cost, active_contributors) ELSE 0]

AnalyzeTopCreators(d, us, limit) ==
    IF d = <<>> THEN <<>>
    ELSE LET ppu == SortCountsDesc(d, Creators(d))
         IN  [i \in 1..Min(limit, Len(ppu)) |->
                 [user_id |-> ppu[i].id,
                  name |-> ResolveName(us, ppu[i].id),
                  page_count |-> ppu[i].n,
                  percentage |-> Pct1(ppu[i].n, Len(d))]]

\* round((value - cost) / cost * 100, 1) in tenths
RoiPercentage(value, cost) ==
    IF value >= cost THEN Pct1(value - cost, cost) ELSE -Pct1(cost - value, cost)

AnalyzeCosts(d, us, c) ==
    IF d = <<>>
    THEN [annual_cost |-> Len(us) * c.monthly_cost * 12,
          cost_per_active_user |-> 0,
          cost_by_segment |-> <<>>,
          wasted_licenses |-> Len(us),
          wasted_cost |-> Len(us) * c.monthly_cost * 12,
          roi_estimate |-> 0]
    ELSE LET segments == AnalyzeUsers(d, us, c).segments
             monthly_cost_per_user == c.monthly_cost
             total_annual_cost == Len(us) * monthly_cost_per_user * 12
             active_contributors == Cardinality(Creators(d))
             wasted_annual == segments.non_creators * monthly_cost_per_user * 12
             total_creation_value == Len(d) * c.hourly_rate
         IN  [cost_by_segment |->
                 [seg \in DOMAIN segments |->
                     [users |-> segments[seg],
                      monthly_cost |-> segments[seg] * monthly_cost_per_user,
                      annual_cost |-> segments[seg] * monthly_cost_per_user * 12]],
              total_annual_cost |-> total_annual_cost,
              cost_per_active_creator |->
                  IF active_contributors > 0 THEN Ratio2(total_annual_cost, active_contributors) ELSE 0,
              wasted_spend_annual |-> wasted_annual,
              wasted_spend_percentage |->
                  IF total_annual_cost > 0 THEN Pct1(wasted_annual, total_annual_cost) ELSE 0,
              total_creation_value |-> total_creation_value,
              roi_percentage |->
                  IF total_annual_cost > 0 THEN RoiPercentage(total_creation_value, total_annual_cost) ELSE 0,
              monthly_cost_per_user |-> monthly_cost_per_user,
              blended_hourly_rate |-> c.hourly_rate]

AnalyzeStructure(d) ==
    IF d = <<>>
    THEN [templates_count |-> 0, databases_count |-> 0, pages_count |-> 0, template_percentage |-> 0]
    ELSE LET template_pages == Cardinality({i \in Rows(d) : d[i].is_template})
         IN  [template_count |-> template_pages,
              template_percentage |-> Pct1(template_pages, Len(d)),
              non_template_count |-> Len(d) - template_pages]

\* the dict literal is built in order: an analyzer that raises ends the run
RunAll(d, us, c, now) ==
    LET content_health == AnalyzeContentHealth(d)
    IN  IF "raised" \in DOMAIN content_health THEN content_health
        ELSE [summary |-> AnalyzeSummary(d, us, c),
              growth |-> AnalyzeGrowth(d, now),
              users |-> AnalyzeUsers(d, us, c),
              top_creators |-> AnalyzeTopCreators(d, us, 10),
              collaboration |-> AnalyzeCollaboration(d, us),
              content_health |-> content_health,
              costs |-> AnalyzeCosts(d, us, c),
              structure |-> AnalyzeStructure(d),
              risk |-> AnalyzeRisk(d, us)]

----------------------------------------------------------------------------
(* Construction and the analyzer calls                                     *)

NoResult == [none |-> TRUE]

\* the instant the engines of the model are constructed at: 2024-03-01 00:00
Now0 == FromCivil(2024, 3, 1, 0)

\* WorkspaceAnalytics(pages, users) constructed at instant t under config c
Constructed(ps, us, c, t) ==
    /\ users = us
    /\ pages = ps
    /\ cfg = c
    /\ clock = t
    /\ df = IF ps = <<>> THEN <<>> ELSE PrepareDataframe(ps, us, t)
    /\ prepNow = IF ps = <<>> THEN <<>> ELSE <<t>>
    /\ call = "none"
    /\ ret = NoResult
    /\ locals = NoResult

Engine == <<users, pages, cfg, df, prepNow>>

CallRisk ==
    /\ call' = "risk"
    /\ ret' = AnalyzeRisk(df, users)
    /\ locals' = [all_pages |-> GiniVector(df, users)]
    /\ UNCHANGED <<Engine, clock>>

\* the collaboration analyzer narrowing self.df to the collaborated pages
CallCollaborationInPlace ==
    /\ call' = "collaboration"
    /\ ret' = AnalyzeCollaboration(df, users)
    /\ locals' = NoResult
    /\ df' = SelectSeq(df, LAMBDA r : r.created_by # r.last_edited_by)
    /\ UNCHANGED <<users, pages, cfg, prepNow, clock>>

CallCollaboration ==
    /\ call' = "collaboration"
    /\ ret' = AnalyzeCollaboration(df, users)
    /\ locals' = NoResult
    /\ UNCHANGED <<Engine, clock>>

CallContentHealth ==
    /\ call' = "content_health"
    /\ ret' = AnalyzeContentHealth(df)
    /\ locals' = NoResult
    /\ UNCHANGED <<Engine, clock>>

\* the analyzer reads the wall clock for its trailing window
CallGrowth ==
    /\ call' = "growth"
    /\ ret' = AnalyzeGrowth(df, clock)
    /\ locals' = IF df = <<>> THEN NoResult
                 ELSE [now |-> clock, twelve_months_ago |-> MinusMonths(clock, 12)]
    /\ UNCHANGED <<Engine, clock>>

\* wall-clock time passes between construction and analysis
Tick ==
    /\ clock < Now0 + MaxTicks
    /\ clock' = clock + 1
    /\ UNCHANGED <<Engine, call, ret, locals>>

CallCosts ==
    /\ call' = "costs"
    /\ ret' = AnalyzeCosts(df, users, cfg)
    /\ locals' = NoResult
    /\ UNCHANGED <<Engine, clock>>

CallRunAll ==
    /\ call' = "run_all"
    /\ ret' = RunAll(df, users, cfg, clock)
    /\ locals' = NoResult
    /\ UNCHANGED <<Engine, clock>>

\* WorkspaceAnalytics(pages, users) on raw page dicts: the two
\* pd.to_datetime conversions raise out of the constructor, or the derived
\* columns are built
Construct ==
    LET times == {pages[i].created_time : i \in DOMAIN pages}
                     \cup {pages[i].last_edited_time : i \in DOMAIN pages}
    IN  /\ call = "new"
        /\ IF \E x \in times : "raised" \in DOMAIN ToDatetime(x)
           THEN /\ call' = "raised"
                /\ ret' = [raised |-> "ValueError"]
                /\ UNCHANGED <<df, prepNow>>
           ELSE /\ call' = "none"
                /\ ret' = NoResult
                /\ df' = [i \in DOMAIN pages |-> PrepareParsedRow(pages[i], users, clock)]
                /\ prepNow' = IF pages = <<>> THEN <<>> ELSE <<clock>>
        /\ UNCHANGED <<users, pages, cfg, clock, locals>>

\* _analyze_structure() on a built engine
CallStructure ==
    /\ call \notin {"new", "raised"}
    /\ call' = "structure"
    /\ ret' = AnalyzeStructure(df)
    /\ locals' = NoResult
    /\ UNCHANGED <<Engine, clock>>

\* the errors Config.validate collects: the token and directory checks
\* (their outcome is given by env), the request rate and the two
\* comparisons of the segmentation thresholds
ValidateErrors(c, env) ==
    (IF env.token_ok THEN {} ELSE {"NOTION_TOKEN"})
        \cup (IF env.dirs_ok THEN {} ELSE {"directories"})
        \cup (IF env.requests_per_second <= 0 \/ env.requests_per_second > 10
              THEN {"REQUESTS_PER_SECOND"} ELSE {})
        \cup (IF c.power <= c.active THEN {"POWER_USER_THRESHOLD"} ELSE {})
        \cup (IF c.active <= c.occasional THEN {"ACTIVE_USER_THRESHOLD"} ELSE {})

\* setup_and_validate(): Config.validate() raises ValueError when it
\* collected an error and returns True otherwise
ValidateConfig ==
    /\ call = "start"
    /\ IF ValidateErrors(cfg, locals) # {}
       THEN call' = "config_error" /\ ret' = [raised |-> "ValueError"]
       ELSE call' = "validated" /\ ret' = [value |-> TRUE]
    /\ UNCHANGED <<Engine, clock, locals>>

\* enrich_pages up to its loop: a usable cache is returned at once
EnrichStart ==
    /\ call = "enrich_pages"
    /\ IF locals.use_cache /\ locals.cached
       THEN call' = "enriched" /\ ret' = [value |-> "cached"]
       ELSE call' = "fetching" /\ ret' = ret
    /\ UNCHANGED <<Engine, clock, locals>>

\* one iteration of 'for page_id in page_ids': get_page_details gives the
\* details or None, and the checkpoint is saved when len(enriched) is a
\* multiple of 1000
FetchPage ==
    /\ call = "fetching"
    /\ locals.next <= Len(pages)
    /\ \E fetched \in BOOLEAN :
          LET enriched == IF fetched THEN Append(locals.enriched, pages[locals.next])
                          ELSE locals.enriched
          IN  locals' = [locals EXCEPT
                            !.next = @ + 1,
                            !.enriched = enriched,
                            !.checkpoints = IF Len(enriched) % CHECKPOINT_EVERY = 0
                                            THEN Append(@, Len(enriched)) ELSE @]
    /\ UNCHANGED <<Engine, clock, call, ret>>

\* after the loop: the final cache is saved and the list returned
EnrichFinish ==
    /\ call = "fetching"
    /\ locals.next > Len(pages)
    /\ call' = "enriched"
    /\ ret' = [value |-> locals.enriched]
    /\ UNCHANGED <<Engine, clock, locals>>

CallUsers ==
    /\ call' = "users"
    /\ ret' = AnalyzeUsers(df, users, cfg)
    /\ locals' = UsersLocals(df, users, cfg)
    /\ UNCHANGED <<Engine, clock>>

----------------------------------------------------------------------------
(* Input families.  A page list is drawn as a multiset of page kinds and   *)
(* laid out kind by kind; a user map holds the identifiers 1..n in order.  *)

RECURSIVE Iota(_)
Iota(n) == IF n <= 0 THEN <<>> ELSE Append(Iota(n - 1), n)

RECURSIVE SortedLists(_, _, _)
SortedLists(kinds, n, lo) ==
    IF n = 0 THEN {<<>>}
    ELSE UNION {{<<kinds[k]>> \o s : s \in SortedLists(kinds, n - 1, k)} : k \in lo..Len(kinds)}

PageLists(kinds, maxn) == UNION {SortedLists(kinds, n, 1) : n \in 0..maxn}

UserMaps == {Iota(n) : n \in 0..MaxUsers}

\* risk inputs: pages differ in their creator only
RiskKinds == [c \in 1..NumIds |-> Page(c, c, Now0 - 10 * UnitsPerDay, Now0 - 10 * UnitsPerDay, "false", "Doc")]

InitRisk ==
    \E us \in UserMaps, ps \in PageLists(RiskKinds, MaxPages) :
        Constructed(ps, us, DefaultCfg, Now0)

NextRisk == CallRisk

SpecRisk == InitRisk /\ [][NextRisk]_vars

\* segmentation inputs: pages differ in creator and creation time; the user
\* map may hold one person more than there are creators; the thresholds are
\* any the configuration check lets through
SegAges == <<0, 365 * UnitsPerDay + (UnitsPerDay - 1), 366 * UnitsPerDay, 731 * UnitsPerDay>>

SegKinds ==
    [k \in 1..(SegIds * Len(SegAges)) |->
        LET c == ((k - 1) \div Len(SegAges)) + 1
            t == Now0 - SegAges[((k - 1) % Len(SegAges)) + 1]
        IN  Page(c, c, t, t, "false", "Doc")]

\* the threshold values tried: small enough for three pages to reach them
SegThresholds == {0, 1, 2, 3}

SegConfigs ==
    {[DefaultCfg EXCEPT !.occasional = o, !.active = a, !.power = p] :
        <<o, a, p>> \in {x \in SegThresholds \X SegThresholds \X SegThresholds :
                            x[1] < x[2] /\ x[2] < x[3]}}

InitUsers ==
    \E n \in 0..(SegIds + 1), ps \in PageLists(SegKinds, SegPages), c \in SegConfigs :
        Constructed(ps, Iota(n), c, Now0)

NextUsers == CallUsers

SpecUsers == InitUsers /\ [][NextUsers]_vars

\* collaboration inputs: pages differ in creator and last editor; the
\* identifiers beyond the user map belong to people who left
CollabKinds ==
    [k \in 1..(CollabIds * CollabIds) |->
        Page(((k - 1) \div CollabIds) + 1, ((k - 1) % CollabIds) + 1,
             Now0 - 20 * UnitsPerDay, Now0 - 10 * UnitsPerDay, "false", "Doc")]

InitCollab ==
    \E n \in 0..CollabIds, ps \in PageLists(CollabKinds, CollabPages) :
        Constructed(ps, Iota(n), DefaultCfg, Now0)

NextCollab == CallCollaboration

SpecCollab == InitCollab /\ [][NextCollab]_vars

\* content-health inputs: last edits on both sides of every bucket
\* boundary, half a day short of one, and one in the future; two pages
\* carry an 'archived' flag set or missing
HealthAges ==
    <<-1, 29 * UnitsPerDay, 30 * UnitsPerDay - 1, 30 * UnitsPerDay,
      90 * UnitsPerDay - 1, 90 * UnitsPerDay, 180 * UnitsPerDay - 1, 180 * UnitsPerDay,
      365 * UnitsPerDay - 1, 365 * UnitsPerDay, 730 * UnitsPerDay - 1, 730 * UnitsPerDay>>

HealthKinds ==
    [k \in 1..(Len(HealthAges) + 2) |->
        IF k <= Len(HealthAges)
        THEN LET et == Now0 - HealthAges[k]
             IN  Page((k % 2) + 1, 1, IF k % 3 = 0 THEN et ELSE Now0 - 800 * UnitsPerDay, et, "false", "Doc")
        ELSE Page(1, 1, Now0 - 10 * UnitsPerDay, Now0 - 10 * UnitsPerDay,
                  IF k = Len(HealthAges) + 1 THEN "true" ELSE Absent, "Doc")]

InitHealth ==
    \E n \in 0..1, ps \in PageLists(HealthKinds, HealthPages) :
        Constructed(ps, Iota(n), DefaultCfg, Now0)

NextHealth == CallContentHealth

SpecHealth == InitHealth /\ [][NextHealth]_vars

\* content-health inputs under configured staleness thresholds
\* (STALE_THRESHOLD_DAYS, VERY_STALE_THRESHOLD_DAYS from the environment);
\* every page carries 'archived'
StaleThresholds == {180, 365, 730}

HealthConfigs ==
    {[DefaultCfg EXCEPT !.stale_days = x[1], !.very_stale_days = x[2]] :
        x \in {y \in StaleThresholds \X StaleThresholds : y[1] < y[2]}}

InitHealthCfg ==
    \E c \in HealthConfigs,
       ps \in PageLists(SubSeq(HealthKinds, 1, Len(HealthAges) + 1), HealthPages) :
        Constructed(ps, Iota(1), c, Now0)

NextHealthCfg == CallContentHealth

SpecHealthCfg == InitHealthCfg /\ [][NextHealthCfg]_vars

\* cost inputs: any selection of one page of each creator and a second
\* page of creator 1; licence cost 12 (default), 1 or 0 per month
CostKinds ==
    [k \in 1..(CostCreators + 1) |->
        LET c == IF k > CostCreators THEN 1 ELSE k
        IN  Page(c, c, Now0 - (10 + k) * UnitsPerDay, Now0 - 10 * UnitsPerDay, "false", "Doc")]

SubList(kinds, S) ==
    LET idx == SortedKeys(S) IN [j \in 1..Len(idx) |-> kinds[idx[j]]]

CostConfigs ==
    {DefaultCfg,
     [DefaultCfg EXCEPT !.occasional = 1, !.active = 2, !.power = 3, !.monthly_cost = 1],
     [DefaultCfg EXCEPT !.monthly_cost = 0]}

InitCosts ==
    \E us \in UserMaps, S \in SUBSET (1..Len(CostKinds)), c \in CostConfigs :
        Constructed(SubList(CostKinds, S), us, c, Now0)

NextCosts == CallCosts

SpecCosts == InitCosts /\ [][NextCosts]_vars

\* concentration inputs: the pages of two creators and user maps large
\* enough for a percentile to take more than one user
InitConcentration ==
    \E n \in 0..ConcUsers, ps \in PageLists(SubSeq(RiskKinds, 1, 2), ConcPages) :
        Constructed(ps, Iota(n), DefaultCfg, Now0)

NextConcentration == CallRisk

SpecConcentration == InitConcentration /\ [][NextConcentration]_vars

\* the whole run over the content-health inputs, among them pages that
\* carry no 'archived' key
NextRunRaw == CallRunAll

SpecRunRaw == InitHealth /\ [][NextRunRaw]_vars

\* the whole run under configured staleness thresholds, over the pages
\* last edited around 180, 365 and 730 days ago
InitRunCfg ==
    \E c \in HealthConfigs,
       ps \in PageLists(SubSeq(HealthKinds, 7, Len(HealthAges) + 1), HealthPages) :
        Constructed(ps, Iota(1), c, Now0)

NextRunCfg == CallRunAll

SpecRunCfg == InitRunCfg /\ [][NextRunCfg]_vars

\* growth inputs: pages created around the start of the trailing window of
\* the construction instant, and in three calendar years
GrowthTimes ==
    <<MinusMonths(Now0, 12) - 1, MinusMonths(Now0, 12), MinusMonths(Now0, 12) + 1,
      FromCivil(2022, 6, 15, 0), FromCivil(2021, 11, 2, 0), Now0 - 10 * UnitsPerDay>>

GrowthKinds == [k \in 1..Len(GrowthTimes) |-> Page(1, 1, GrowthTimes[k], GrowthTimes[k], "false", "Doc")]

InitGrowth ==
    \E ps \in PageLists(GrowthKinds, GrowthPages) : Constructed(ps, Iota(1), DefaultCfg, Now0)

NextGrowth == Tick \/ CallGrowth

SpecGrowth == InitGrowth /\ [][NextGrowth]_vars

\* collaboration-score inputs: pages passed between three people; the user
\* map holds any of them in any iteration order
ScoreKinds ==
    <<Page(1, 1, Now0 - 20 * UnitsPerDay, Now0 - 10 * UnitsPerDay, "false", "Doc"),
      Page(1, 2, Now0 - 20 * UnitsPerDay, Now0 - 10 * UnitsPerDay, "false", "Doc"),
      Page(2, 1, Now0 - 20 * UnitsPerDay, Now0 - 10 * UnitsPerDay, "false", "Doc"),
      Page(2, 2, Now0 - 20 * UnitsPerDay, Now0 - 10 * UnitsPerDay, "false", "Doc"),
      Page(3, 1, Now0 - 20 * UnitsPerDay, Now0 - 10 * UnitsPerDay, "false", "Doc"),
      Page(3, 3, Now0 - 20 * UnitsPerDay, Now0 - 10 * UnitsPerDay, "false", "Doc")>>

ScoreUserMaps ==
    {us \in UNION {[1..n -> {1, 2, 3}] : n \in 0..3} :
        \A i, j \in DOMAIN us : i # j => us[i] # us[j]}

InitScore ==
    \E us \in ScoreUserMaps, ps \in PageLists(ScoreKinds, ScorePages) :
        Constructed(ps, us, DefaultCfg, Now0)

NextScore == CallCollaboration

SpecScore == InitScore /\ [][NextScore]_vars

\* whole-run inputs, every page with the fields the API client delivers:
\* pages of three people, any of whom may have left, fresh and stale, one
\* with a template title, one archived
AllKinds ==
    <<Page(1, 1, Now0 - 10 * UnitsPerDay, Now0 - 10 * UnitsPerDay, "false", "Doc"),
      Page(1, 2, Now0 - 400 * UnitsPerDay, Now0 - 100 * UnitsPerDay, "false", "Sprint Template"),
      Page(2, 1, Now0 - 800 * UnitsPerDay, Now0 - 800 * UnitsPerDay, "true", "Doc"),
      Page(3, 1, Now0 - 40 * UnitsPerDay, Now0 - 20 * UnitsPerDay, "false", "Doc"),
      Page(3, 3, Now0 - 500 * UnitsPerDay, Now0 - 500 * UnitsPerDay, "false", "Doc"),
      Page(2, 2, Now0 - 5 * UnitsPerDay, Now0 - 5 * UnitsPerDay, "false", "Doc")>>

InitAll ==
    \E us \in UserMaps, ps \in PageLists(AllKinds, AllPages) :
        Constructed(ps, us, DefaultCfg, Now0)

NextAll == CallRunAll

SpecAll == InitAll /\ [][NextAll]_vars

\* raw-timestamp inputs: each timestamp of a page is the text of an
\* instant, text that is no date, or blank; the engine is yet to be built
RawTimes == {[text |-> "iso", at |-> Now0 - 10 * UnitsPerDay], [text |-> "not-a-date"], [text |-> ""]}

ParseKinds ==
    LET raw == CHOOSE f \in [1..Cardinality(RawTimes) -> RawTimes] :
                   \A i, j \in DOMAIN f : i # j => f[i] # f[j]
    IN  [k \in 1..(Len(raw) * Len(raw)) |->
            Page(1, 1, raw[((k - 1) \div Len(raw)) + 1], raw[((k - 1) % Len(raw)) + 1],
                 "false", "Doc")]

InitParse ==
    \E n \in 0..1, ps \in PageLists(ParseKinds, ParsePages) :
        /\ users = Iota(n)
        /\ pages = ps
        /\ cfg = DefaultCfg
        /\ clock = Now0
        /\ df = <<>>
        /\ prepNow = <<>>
        /\ call = "new"
        /\ ret = NoResult
        /\ locals = NoResult

NextParse == Construct \/ CallStructure

SpecParse == InitParse /\ [][NextParse]_vars

\* configurations as the environment can set them, valid or not, before
\* the run validates them
ConfigValues ==
    {[DefaultCfg EXCEPT !.occasional = x[1], !.active = x[2], !.power = x[3],
                        !.stale_days = x[4], !.very_stale_days = x[5]] :
        x \in {-1, 0, 5} \X {0, 5, 20} \X {5, 20, 100} \X {0, 365, 730} \X {365, 730}}

InitConfig ==
    \E c \in ConfigValues, ok \in BOOLEAN :
        /\ users = <<>>
        /\ pages = <<>>
        /\ cfg = c
        /\ clock = Now0
        /\ df = <<>>
        /\ prepNow = <<>>
        /\ call = "start"
        /\ ret = NoResult
        /\ locals = [token_ok |-> ok, dirs_ok |-> TRUE, requests_per_second |-> 3]

NextConfig == ValidateConfig

SpecConfig == InitConfig /\ [][NextConfig]_vars

\* enrich_pages called on a list of page ids, with or without a cache
InitEnrich ==
    \E n \in 0..EnrichPages, use_cache \in BOOLEAN, cached \in BOOLEAN :
        /\ users = <<>>
        /\ pages = Iota(n)
        /\ cfg = DefaultCfg
        /\ clock = Now0
        /\ df = <<>>
        /\ prepNow = <<>>
        /\ call = "enrich_pages"
        /\ ret = NoResult
        /\ locals = [use_cache |-> use_cache, cached |-> cached, next |-> 1,
                     enriched |-> <<>>, checkpoints |-> <<>>]

NextEnrich == EnrichStart \/ FetchPage \/ EnrichFinish

SpecEnrich == InitEnrich /\ [][NextEnrich]_vars

\* call sequences: analyzers and run_all called in any order, any number
\* of times, on one engine; pages created and edited by one user, edited
\* by another, and archived
FrameKinds == SubSeq(AllKinds, 1, 3)

InitFrame ==
    \E us \in UserMaps, ps \in PageLists(FrameKinds, FramePages) :
        Constructed(ps, us, DefaultCfg, Now0)

\* run_all runs every analyzer; the segmentation and the collaboration
\* analyzer are also called on their own, before and after it
NextFrame == CallUsers \/ CallCollaboration \/ CallRunAll

SpecFrame == InitFrame /\ [][NextFrame]_vars

Init == InitRisk \/ InitUsers \/ InitCollab \/ InitHealth \/ InitGrowth \/ InitScore \/ InitHealthCfg \/ InitCosts
        \/ InitConcentration
        \/ InitAll

Next ==
    \/ Tick \/ CallRisk \/ CallUsers \/ CallCollaboration \/ CallContentHealth
    \/ CallGrowth \/ CallCosts \/ CallRunAll

Spec == Init /\ [][Next]_vars

----------------------------------------------------------------------------
(* Claims on the risk analyzer                                             *)

CreatorCounts(d) ==
    LET ppu == SortCountsDesc(d, Creators(d)) IN [i \in 1..Len(ppu) |-> ppu[i].n]

\* C1: for every input - also with creators absent from the user map and
\* with more creators than current users - the reported Gini coefficient
\* lies between 0 and 1 (1000 thousandths).
C1_GiniInUnitInterval ==
    call = "risk" => (0 <= ret.gini_coefficient /\ ret.gini_coefficient <= 1000)

C1_Witness ==
    /\ call = "risk"
    /\ ret.gini_coefficient > 0
    /\ \E u \in Creators(df) : u \notin UserSet(users)
    /\ Cardinality(Creators(df)) > Len(users)

\* C2: the bus factor is at least 1 for a non-empty page list and exactly 0
\* for the empty one.
C2_BusFactorFloor ==
    call = "risk" =>
        /\ (pages # <<>> => ret.bus_factor >= 1)
        /\ (pages = <<>> => ret.bus_factor = 0)

C2_Witness == call = "risk" /\ pages # <<>> /\ ret.bus_factor = 1 /\ Cardinality(Creators(df)) >= 2

\* the least k whose k largest creators hold at least half of the pages
LeastHalf(counts, total) ==
    CHOOSE k \in 1..Len(counts) :
        /\ 2 * HeadSum(counts, k) >= total
        /\ 2 * HeadSum(counts, k - 1) < total

\* C3: with pages present, the bus factor is the least k such that the k
\* creators with the most pages created at least 50% of all pages.
C3_BusFactorIsLeast ==
    (call = "risk" /\ pages # <<>>) => ret.bus_factor = LeastHalf(CreatorCounts(df), Len(df))

----------------------------------------------------------------------------
(* Claims on the segmentation analyzer                                     *)

SegmentCounts == IF "segments" \in DOMAIN ret THEN ret.segments ELSE ret

\* C4: the five segment counts sum to the number of current users.
C4_SegmentsPartitionUsers ==
    call = "users" =>
        SegmentCounts.power_creators + SegmentCounts.active_creators
            + SegmentCounts.occasional_creators + SegmentCounts.minimal_creators
            + SegmentCounts.non_creators = Len(users)

C4_Witness ==
    /\ call = "users"
    /\ df # <<>>
    /\ Len(users) >= 2
    /\ SegmentCounts.non_creators < Len(users)
    /\ \E u \in UserSet(users) : RateGe(locals.annual_rate[u], cfg.active)

\* C5: a current user is classified by the first rule that matches, in
\* descending threshold order, with >= at every threshold; with no pages
\* at all every user is a non-creator.
C5_FirstMatchWins ==
    call = "users" =>
        /\ \A u \in DOMAIN locals.segment :
              LET r == locals.annual_rate[u]
                  seg == locals.segment[u]
                  geP == r.num >= cfg.power * r.den
                  geA == r.num >= cfg.active * r.den
                  geO == r.num >= cfg.occasional * r.den
              IN  /\ seg = "power_creators" <=> geP
                  /\ seg = "active_creators" <=> (~geP /\ geA)
                  /\ seg = "occasional_creators" <=> (~geP /\ ~geA /\ geO)
                  /\ seg = "minimal_creators" <=> (~geP /\ ~geA /\ ~geO /\ r.num > 0)
                  /\ seg = "non_creators" <=> (~geP /\ ~geA /\ ~geO /\ ~(r.num > 0))
        /\ df # <<>> =>
              \A seg \in DOMAIN ZeroSegments :
                  ret.segments[seg] = Cardinality({i \in DOMAIN users : locals.segment[users[i]] = seg})

\* a user whose rate equals a threshold exactly sits in the higher tier
C5_Witness ==
    /\ call = "users"
    /\ \E u \in DOMAIN locals.segment :
          /\ locals.annual_rate[u].num = cfg.active * locals.annual_rate[u].den
          /\ locals.segment[u] = "active_creators"
          /\ ret.segments.active_creators >= 1

\* the creation times of u's pages, read from the raw page list
CreatedTimes(u) == {pages[i].created_time : i \in {j \in DOMAIN pages : pages[j].created_by = u}}

SpanDays(u) ==
    IF CreatedTimes(u) = {} THEN 0 ELSE
    LET first == CHOOSE t \in CreatedTimes(u) : \A x \in CreatedTimes(u) : t <= x
        last == CHOOSE t \in CreatedTimes(u) : \A x \in CreatedTimes(u) : t >= x
    IN  (last - first) \div UnitsPerDay

\* C6: annual_rate = pages / max(days between first and last page / 365.25, 1.0):
\* the page count itself when all pages fall within one year, 0 for no pages.
C6_AnnualRate ==
    call = "users" =>
        \A u \in DOMAIN locals.annual_rate :
            LET r == locals.annual_rate[u]
                n == Cardinality({j \in DOMAIN pages : pages[j].created_by = u})
            IN  IF n = 0 THEN r.num = 0
                ELSE /\ r.den > 0
                     \* r * max(days / 365.25, 1) = n, times 1461 * den
                     /\ r.num * Max(4 * SpanDays(u), 1461) = n * 1461 * r.den
                     /\ (SpanDays(u) <= 365 => r.num = n * r.den)
                     /\ r.num <= n * r.den

C6_Witness ==
    /\ call = "users"
    /\ \E u \in DOMAIN locals.annual_rate :
          /\ SpanDays(u) >= 366
          /\ locals.annual_rate[u].num < locals.annual_rate[u].den * Cardinality({j \in DOMAIN pages : pages[j].created_by = u})
    /\ \E u \in DOMAIN locals.annual_rate : locals.annual_rate[u].num = 0
    /\ \E u \in DOMAIN locals.annual_rate :
          /\ CreatedTimes(u) # {}
          /\ SpanDays(u) <= 365
          /\ locals.annual_rate[u].num = locals.annual_rate[u].den * Cardinality({j \in DOMAIN pages : pages[j].created_by = u})

----------------------------------------------------------------------------
(* Claims on the collaboration analyzer                                    *)

\* C7: for a non-empty page list every page is counted as collaborated
\* (creator differs from last editor) or as single-owner (they are equal),
\* never both: collaborated_pages + single_owner_pages = total pages.
C7_CollaboratedOrSingleOwner ==
    (call = "collaboration" /\ pages # <<>>) =>
        /\ ret.collaborated_pages =
              Cardinality({i \in DOMAIN pages : pages[i].created_by # pages[i].last_edited_by})
        /\ ret.single_owner_pages =
              Cardinality({i \in DOMAIN pages : pages[i].created_by = pages[i].last_edited_by})
        /\ ret.collaborated_pages + ret.single_owner_pages = Len(pages)

\* a page passed between two people who both left the workspace
C7_Witness ==
    /\ call = "collaboration"
    /\ pages # <<>>
    /\ ret.collaborated_pages >= 1
    /\ ret.single_owner_pages >= 1
    /\ \E i \in DOMAIN pages :
          /\ pages[i].created_by # pages[i].last_edited_by
          /\ pages[i].created_by \notin UserSet(users)
          /\ pages[i].last_edited_by \notin UserSet(users)

\* C8 as stated: collaboration_percentage equals
\* collaborated_pages / total_pages * 100 exactly (percentage in tenths).
C8_ExactPercentage ==
    (call = "collaboration" /\ pages # <<>>) =>
        ret.collaboration_percentage * Len(pages) = ret.collaborated_pages * 1000

\* C8: collaboration_percentage is collaborated_pages / total_pages * 100
\* rounded to one decimal place: it lies within 0.05 of the exact quotient.
C8_RoundedPercentage ==
    (call = "collaboration" /\ pages # <<>>) =>
        2 * Abs(ret.collaboration_percentage * Len(pages) - ret.collaborated_pages * 1000) <= Len(pages)

\* 2 collaborated pages of 3 report 66.7
C8_Witness ==
    /\ call = "collaboration"
    /\ pages # <<>>
    /\ Len(pages) = 3
    /\ ret.collaborated_pages = 2
    /\ ret.collaboration_percentage = 667

----------------------------------------------------------------------------
(* Claims on content health                                                *)

\* whole days from the last edit of page i to the normalization instant
DaysSinceEdit(i) == FloorDiv(prepNow[1] - pages[i].last_edited_time, UnitsPerDay)

RECURSIVE SumCounts(_, _)
SumCounts(f, keys) ==
    IF keys = {} THEN 0
    ELSE LET k == CHOOSE x \in keys : TRUE IN f[k] + SumCounts(f, keys \ {k})

\* C9: every page gets exactly the staleness bucket of the table for its
\* days_since_edit (<30 Active, 30-89 Fresh, 90-179 Aging, 180-364 Stale,
\* 365-729 Very Stale, >=730 Dead; a boundary value belongs to the higher
\* bucket), and the counts of staleness_distribution sum to the total.
C9_StalenessBuckets ==
    (call = "content_health" /\ pages # <<>>) =>
        /\ \A i \in DOMAIN pages :
              LET days == DaysSinceEdit(i)
                  b == df[i].staleness
              IN  /\ b = "Active (< 1 month)" <=> days < 30
                  /\ b = "Fresh (1-3 months)" <=> (30 <= days /\ days <= 89)
                  /\ b = "Aging (3-6 months)" <=> (90 <= days /\ days <= 179)
                  /\ b = "Stale (6-12 months)" <=> (180 <= days /\ days <= 364)
                  /\ b = "Very Stale (12-24 months)" <=> (365 <= days /\ days <= 729)
                  /\ b = "Dead (24+ months)" <=> days >= 730
        /\ "staleness_distribution" \in DOMAIN ret =>
              LET dist == ret.staleness_distribution
              IN  /\ \A b \in DOMAIN dist :
                        dist[b] = Cardinality({i \in DOMAIN pages : df[i].staleness = b})
                  /\ SumCounts(dist, DOMAIN dist) = Len(pages)

\* three pages edited exactly 30, 365 and 730 days ago
C9_Witness ==
    /\ call = "content_health"
    /\ Len(pages) = 3
    /\ "staleness_distribution" \in DOMAIN ret
    /\ {DaysSinceEdit(i) : i \in DOMAIN pages} = {30, 365, 730}
    /\ \A i \in DOMAIN pages : (prepNow[1] - pages[i].last_edited_time) % UnitsPerDay = 0
    /\ DOMAIN ret.staleness_distribution =
          {"Fresh (1-3 months)", "Very Stale (12-24 months)", "Dead (24+ months)"}

----------------------------------------------------------------------------
(* Claims on growth                                                        *)

\* C10: 'now' is captured once: the instant the growth analyzer measures
\* its trailing 12-month window from is the instant normalization used for
\* days_since_edit, however long after construction the analyzer runs.
C10_SingleNow ==
    (call = "growth" /\ pages # <<>>) =>
        /\ locals.now = prepNow[1]
        /\ \A i \in DOMAIN pages :
              (\E m \in DOMAIN ret.monthly_last_12 : m = df[i].created_month)
                  <=> pages[i].created_time >= MinusMonths(prepNow[1], 12)

----------------------------------------------------------------------------
(* Claims on the whole run                                                 *)

\* C11: with an empty page list and any user map run_all raises nothing and
\* returns the zero baseline: summary.total_pages = 0,
\* risk.gini_coefficient = 0, risk.bus_factor = 0 and users.non_creators is
\* the number of users.
C11_EmptyBaseline ==
    (call = "run_all" /\ pages = <<>>) =>
        /\ "raised" \notin DOMAIN ret
        /\ ret.summary.total_pages = 0
        /\ ret.risk.gini_coefficient = 0
        /\ ret.risk.bus_factor = 0
        /\ "non_creators" \in DOMAIN ret.users
        /\ ret.users.non_creators = Len(users)

C11_Witness ==
    /\ call = "run_all"
    /\ pages = <<>>
    /\ Len(users) >= 2
    /\ ret.users.non_creators = Len(users)

\* the pages whose creator is not a key of the user map
OrphanPages == {i \in DOMAIN pages : pages[i].created_by \notin UserSet(users)}

SumSegments(r) ==
    r.power_creators + r.active_creators + r.occasional_creators
        + r.minimal_creators + r.non_creators

\* what C12 says apart from the collaboration entries: the name is
\* "Unknown", the page is in total_pages and in the staleness counts, in no
\* segment count and in no pages_by_segment total
OrphansCountedOnce ==
    /\ \A i \in OrphanPages : df[i].creator_name = <<"Unknown">>
    /\ ret.summary.total_pages = Len(pages)
    /\ SumCounts(ret.content_health.staleness_distribution,
                 DOMAIN ret.content_health.staleness_distribution) = Len(pages)
    /\ SumSegments(ret.users.segments) = Len(users)
    /\ SumSegments(ret.users.pages_by_segment) = Len(pages) - Cardinality(OrphanPages)
    /\ \A k \in DOMAIN ret.collaboration.top_collaborators :
          LET e == ret.collaboration.top_collaborators[k]
          IN  /\ e.user_id \in UserSet(users)
              /\ e.pages_created =
                    Cardinality({i \in DOMAIN pages : pages[i].created_by = e.user_id})

\* C12 as stated: a page whose creator is not in the user map is no error,
\* is named "Unknown", counts in the totals and health counts, and
\* contributes to no segment, no pages_by_segment total and no user's
\* collaboration entry.
C12_OrphanInNoCollaborationEntry ==
    (call = "run_all" /\ pages # <<>>) =>
        /\ OrphansCountedOnce
        /\ \A k \in DOMAIN ret.collaboration.top_collaborators :
              LET e == ret.collaboration.top_collaborators[k]
              IN  e.others_pages_edited =
                      Cardinality({i \in DOMAIN pages \ OrphanPages :
                                      pages[i].last_edited_by = e.user_id /\ pages[i].created_by # e.user_id})

\* C12: such a page is no error, is named "Unknown", counts in the totals
\* and health counts, contributes to no segment, no pages_by_segment total
\* and no user's pages_created; it does count in the others_pages_edited of
\* the current user who last edited it.
C12_OrphanCountsForItsEditor ==
    (call = "run_all" /\ pages # <<>>) =>
        /\ OrphansCountedOnce
        /\ \A k \in DOMAIN ret.collaboration.top_collaborators :
              LET e == ret.collaboration.top_collaborators[k]
              IN  e.others_pages_edited =
                      Cardinality({i \in DOMAIN pages :
                                      pages[i].last_edited_by = e.user_id /\ pages[i].created_by # e.user_id})

C12_Witness ==
    /\ call = "run_all"
    /\ \E i \in OrphanPages : pages[i].last_edited_by \in UserSet(users)
    /\ \E i \in DOMAIN pages : pages[i].created_by \in UserSet(users)
    /\ \E k \in DOMAIN ret.collaboration.top_collaborators :
          ret.collaboration.top_collaborators[k].others_pages_edited >= 1

----------------------------------------------------------------------------
(* Further claims on content health                                        *)

\* C13: 'archived' defaults to false: for a non-empty page list in which
\* no page, or only some pages, carry the field, the content health
\* analyzer raises nothing and archived_pages is the number of pages whose
\* field is present and true.
C13_ArchivedDefaultsFalse ==
    (call = "content_health" /\ pages # <<>>) =>
        /\ "raised" \notin DOMAIN ret
        /\ ret.archived_pages = Cardinality({i \in DOMAIN pages : pages[i].archived = "true"})

----------------------------------------------------------------------------
(* Claims on the collaboration scores                                      *)

\* the entry of user u in the ranking
EntryOf(u) ==
    ret.top_collaborators[CHOOSE k \in DOMAIN ret.top_collaborators :
                              ret.top_collaborators[k].user_id = u]

CreatedBy(u) == Cardinality({i \in DOMAIN pages : pages[i].created_by = u})

OthersEditedBy(u) ==
    Cardinality({i \in DOMAIN pages : pages[i].last_edited_by = u /\ pages[i].created_by # u})

\* C14 as stated: every current user's score is others_edited / created * 100
\* when created > 0 and 0 when created = 0 (score in tenths).
C14_ScoreIsQuotient ==
    (call = "collaboration" /\ pages # <<>>) =>
        /\ {ret.top_collaborators[k].user_id : k \in DOMAIN ret.top_collaborators} = UserSet(users)
        /\ \A u \in UserSet(users) :
              IF CreatedBy(u) = 0 THEN EntryOf(u).collaboration_score = 0
              ELSE EntryOf(u).collaboration_score * CreatedBy(u) = 1000 * OthersEditedBy(u)

\* C14: every current user's score is others_edited / created * 100 rounded
\* to one decimal place when created > 0 and 0 when created = 0; a user who
\* only edits other people's pages scores 0.
C14_ScoreIsRoundedQuotient ==
    (call = "collaboration" /\ pages # <<>>) =>
        /\ {ret.top_collaborators[k].user_id : k \in DOMAIN ret.top_collaborators} = UserSet(users)
        /\ \A u \in UserSet(users) :
              /\ EntryOf(u).pages_created = CreatedBy(u)
              /\ EntryOf(u).others_pages_edited = OthersEditedBy(u)
              /\ IF CreatedBy(u) = 0 THEN EntryOf(u).collaboration_score = 0
                 ELSE 2 * Abs(EntryOf(u).collaboration_score * CreatedBy(u) - 1000 * OthersEditedBy(u))
                          <= CreatedBy(u)

\* one user created three pages and edited one of somebody else (33.3),
\* another only edited
C14_Witness ==
    /\ call = "collaboration"
    /\ pages # <<>>
    /\ \E u \in UserSet(users) :
          CreatedBy(u) = 3 /\ OthersEditedBy(u) = 1 /\ EntryOf(u).collaboration_score = 333
    /\ \E u \in UserSet(users) :
          CreatedBy(u) = 0 /\ OthersEditedBy(u) >= 1 /\ EntryOf(u).collaboration_score = 0

\* position of user u in the iteration order of the user map
MapPosition(u) == CHOOSE i \in DOMAIN users : users[i] = u

\* C15: the ranking is in non-increasing order of score, and users of equal
\* score keep the relative order they have in the user map.
C15_StableDescendingRanking ==
    (call = "collaboration" /\ pages # <<>>) =>
        LET top == ret.top_collaborators
        IN  \A k, l \in DOMAIN top :
                k < l =>
                    /\ top[k].collaboration_score >= top[l].collaboration_score
                    /\ top[k].collaboration_score = top[l].collaboration_score
                           => MapPosition(top[k].user_id) < MapPosition(top[l].user_id)

\* a map iterating 3, 2, 1 in which 3 scores less than 2 and 1, who score
\* the same: the ranking is 2, 1, 3
C15_Witness ==
    /\ call = "collaboration"
    /\ pages # <<>>
    /\ users = <<3, 2, 1>>
    /\ CreatedBy(3) > 0
    /\ EntryOf(1).collaboration_score = EntryOf(2).collaboration_score
    /\ EntryOf(3).collaboration_score < EntryOf(1).collaboration_score
    /\ ret.top_collaborators[1].user_id = 2
    /\ ret.top_collaborators[2].user_id = 1
    /\ ret.top_collaborators[3].user_id = 3

\* the entries of the users who created pages, and the sum of their scores
CreatorEntries == {u \in UserSet(users) : CreatedBy(u) > 0}

RECURSIVE SumScores(_)
SumScores(us) ==
    IF us = {} THEN 0
    ELSE LET u == CHOOSE x \in us : TRUE
         IN  EntryOf(u).collaboration_score + SumScores(us \ {u})

\* C16 as stated: the average is the mean of the scores of the current users
\* with created > 0, and 0 when there is none (scores in tenths).
C16_AverageIsMean ==
    (call = "collaboration" /\ pages # <<>>) =>
        IF CreatorEntries = {} THEN ret.average_collaboration_score = 0
        ELSE ret.average_collaboration_score * Cardinality(CreatorEntries)
                 = SumScores(CreatorEntries)

\* C16: the average is the mean, rounded to one decimal place, of the
\* scores of exactly the current users with created > 0, and 0 when no
\* current user created a page.
C16_AverageIsRoundedMean ==
    (call = "collaboration" /\ pages # <<>>) =>
        IF CreatorEntries = {} THEN ret.average_collaboration_score = 0
        ELSE 2 * Abs(ret.average_collaboration_score * Cardinality(CreatorEntries)
                         - SumScores(CreatorEntries))
                 <= Cardinality(CreatorEntries)

\* a creator scoring 100, a creator scoring 0 and a user who only edited
\* and is left out: the average is 50
C16_Witness ==
    /\ call = "collaboration"
    /\ pages # <<>>
    /\ Cardinality(CreatorEntries) = 2
    /\ \E u \in UserSet(users) : CreatedBy(u) = 0 /\ OthersEditedBy(u) > 0
    /\ SumScores(CreatorEntries) = 1000
    /\ ret.average_collaboration_score = 500

----------------------------------------------------------------------------
(* Claims on the configured staleness thresholds                           *)

\* C17: stale_pages is the number of pages with days_since_edit >=
\* stale_days and very_stale_pages the number with days_since_edit >=
\* very_stale_days, for any configured values.
C17_ConfiguredThresholds ==
    (call = "content_health" /\ pages # <<>>) =>
        /\ ret.stale_pages
               = Cardinality({i \in DOMAIN pages : DaysSinceEdit(i) >= cfg.stale_days})
        /\ ret.very_stale_pages
               = Cardinality({i \in DOMAIN pages : DaysSinceEdit(i) >= cfg.very_stale_days})

----------------------------------------------------------------------------
(* Further claims on growth                                                *)

\* pages created in calendar year y
CountOfYear(y) == Cardinality({i \in DOMAIN pages : df[i].created_year = y})

\* C18: yoy_growth has an entry for year Y only when pages exist for Y and
\* for Y-1; the entry is (count[Y] - count[Y-1]) / count[Y-1] * 100 to one
\* decimal; a year after a gap in the years present gets no entry.
C18_YoyNeedsPrecedingYear ==
    (call = "growth" /\ pages # <<>>) =>
        /\ DOMAIN ret.yoy_growth
               = {y \in {df[i].created_year : i \in DOMAIN pages} : CountOfYear(y - 1) > 0}
        /\ \A y \in DOMAIN ret.yoy_growth :
              CountOfYear(y - 1) > 0 =>
                  2 * Abs(ret.yoy_growth[y] * CountOfYear(y - 1)
                              - 1000 * (CountOfYear(y) - CountOfYear(y - 1)))
                      <= CountOfYear(y - 1)

\* the pages inside the trailing window of the analyzer, and their months
WindowPages == {i \in DOMAIN pages : pages[i].created_time >= locals.twelve_months_ago}

WindowMonths == {df[i].created_month : i \in WindowPages}

\* C19: avg_monthly_pages is the mean of the monthly counts of the pages
\* created in the trailing 12 months (to one decimal, in tenths), and 0
\* when the window holds no month although the page list is not empty.
C19_AverageZeroWithoutMonths ==
    (call = "growth" /\ pages # <<>>) =>
        /\ ~ret.avg_monthly_pages.nan
        /\ IF WindowMonths = {} THEN ret.avg_monthly_pages.tenths = 0
           ELSE 2 * Abs(ret.avg_monthly_pages.tenths * Cardinality(WindowMonths)
                            - 10 * Cardinality(WindowPages))
                    <= Cardinality(WindowMonths)

----------------------------------------------------------------------------
(* Claims on costs                                                         *)

\* distinct creators of the page list
DistinctCreators == Cardinality({pages[i].created_by : i \in DOMAIN pages})

\* total cost, segment costs and the zero cases of the cost analysis
CostTotals ==
    /\ ret.total_annual_cost = Len(users) * cfg.monthly_cost * 12
    /\ DOMAIN ret.cost_by_segment = DOMAIN AnalyzeUsers(df, users, cfg).segments
    /\ \A seg \in DOMAIN ret.cost_by_segment :
          /\ ret.cost_by_segment[seg].users = AnalyzeUsers(df, users, cfg).segments[seg]
          /\ ret.cost_by_segment[seg].annual_cost
                 = ret.cost_by_segment[seg].users * cfg.monthly_cost * 12
    /\ ret.total_annual_cost = 0 =>
          (ret.wasted_spend_percentage = 0 /\ ret.roi_percentage = 0)

\* C20 as stated: for a non-empty page list the totals are as above and
\* cost_per_active_creator is total_annual_cost / distinct creators (in
\* hundredths), 0 when there is no creator.
C20_CostPerCreatorIsQuotient ==
    (call = "costs" /\ pages # <<>>) =>
        /\ CostTotals
        /\ IF DistinctCreators = 0 THEN ret.cost_per_active_creator = 0
           ELSE ret.cost_per_active_creator * DistinctCreators = 100 * ret.total_annual_cost

\* C20: for a non-empty page list total_annual_cost is total_users *
\* monthly_cost_per_user * 12, each segment's annual cost is its user count
\* * monthly_cost_per_user * 12, cost_per_active_creator is
\* total_annual_cost / distinct creators rounded to two decimals (0 without
\* creators), and the waste and ROI percentages are 0 when
\* total_annual_cost is 0.
C20_CostFormulas ==
    (call = "costs" /\ pages # <<>>) =>
        /\ CostTotals
        /\ IF DistinctCreators = 0 THEN ret.cost_per_active_creator = 0
           ELSE 2 * Abs(ret.cost_per_active_creator * DistinctCreators
                            - 100 * ret.total_annual_cost)
                    <= DistinctCreators

\* two licences of 1 a month shared by seven creators: 24 / 7 reports 3.43
C20_Witness ==
    /\ call = "costs"
    /\ pages # <<>>
    /\ DistinctCreators = 7
    /\ ret.total_annual_cost = 24
    /\ ret.cost_per_active_creator = 343
    /\ ret.cost_by_segment.active_creators.annual_cost = 12

----------------------------------------------------------------------------
(* Further claims on risk                                                  *)

\* C21: the vector the Gini coefficient is computed over has exactly one
\* entry per current user - the user's page count, zero for a current user
\* without pages - also when pages were created by users absent from the
\* user map.
C21_GiniVectorPerCurrentUser ==
    (call = "risk" /\ pages # <<>>) =>
        /\ Len(locals.all_pages) = Len(users)
        /\ locals.all_pages = SortAsc([i \in 1..Len(users) |-> CreatedBy(users[i])])


\* the percentile entries: users, and the pages of that many top creators
ConcentrationCounts ==
    \A key \in {<<"top_1_percent", 1>>, <<"top_5_percent", 5>>, <<"top_10_percent", 10>>} :
        LET e == ret.concentration[key[1]]
        IN  /\ e.users = Max(1, (Len(users) * key[2]) \div 100)
            /\ e.pages = HeadSum(CreatorCounts(df), e.users)

\* 10 users, one of whom created 9 of 10 pages
NineOfTen ==
    /\ Len(users) = 10
    /\ Len(pages) = 10
    /\ \E u \in UserSet(users) : CreatedBy(u) = 9

\* C22 as stated: each entry reports users = max(1, floor(n * p)), the
\* pages of that many top creators and percentage = pages / total_pages *
\* 100 (tenths); nine of ten pages by one of 10 users give
\* top_10_percent.percentage >= 90 and bus_factor = 1.
C22_ConcentrationExact ==
    (call = "risk" /\ pages # <<>>) =>
        /\ ConcentrationCounts
        /\ \A key \in DOMAIN ret.concentration :
              ret.concentration[key].percentage * Len(pages)
                  = 1000 * ret.concentration[key].pages
        /\ NineOfTen => (ret.concentration.top_10_percent.percentage >= 900 /\ ret.bus_factor = 1)

\* C22: as above with the percentage rounded to one decimal place.
C22_ConcentrationRounded ==
    (call = "risk" /\ pages # <<>>) =>
        /\ ConcentrationCounts
        /\ \A key \in DOMAIN ret.concentration :
              2 * Abs(ret.concentration[key].percentage * Len(pages)
                          - 1000 * ret.concentration[key].pages)
                  <= Len(pages)
        /\ NineOfTen => (ret.concentration.top_10_percent.percentage >= 900 /\ ret.bus_factor = 1)

C22_Witness ==
    /\ call = "risk"
    /\ NineOfTen
    /\ ret.concentration.top_10_percent = [users |-> 1, pages |-> 9, percentage |-> 900]
    /\ ret.bus_factor = 1

----------------------------------------------------------------------------
(* Further claims on the whole run                                         *)

\* C23: for every input, empty or not, run_all returns a mapping whose key
\* set is exactly the nine result categories.
C23_NineCategories ==
    call = "run_all" =>
        DOMAIN ret = {"summary", "growth", "users", "top_creators", "collaboration",
                      "content_health", "costs", "structure", "risk"}


\* C24: no analyzer mutates shared state: every analyzer call and run_all
\* leave the normalized dataset and the user map as they are, so that they
\* stay what construction made them whatever is called, in any order.
C24_AnalyzersLeaveEngineAlone ==
    [][df' = df /\ users' = users /\ pages' = pages /\ prepNow' = prepNow]_vars

\* run_all has run on an engine whose dataset is still the one
\* construction made
C24_Witness ==
    /\ call = "run_all"
    /\ Len(pages) = 2
    /\ Len(users) = 2
    /\ df = PrepareDataframe(pages, users, prepNow[1])

----------------------------------------------------------------------------
(* Claims on construction                                                  *)

\* the raw timestamps that are not the text of an instant
Unparseable ==
    {i \in DOMAIN pages :
        pages[i].created_time.text # "iso" \/ pages[i].last_edited_time.text # "iso"}

\* C25: a page whose created_time or last_edited_time cannot be parsed
\* makes construction raise: no engine is built on such an input and no
\* analyzer result is produced for it.
C25_UnparseableTimestampRaises ==
    (call # "new" /\ Unparseable # {}) => (call = "raised" /\ df = <<>>)

----------------------------------------------------------------------------
(* Claims on the configuration                                             *)

\* C26: validation rejects every configuration that violates power >
\* active > occasional > 0 or very_stale_days > stale_days > 0: a
\* configuration that passes validation satisfies both chains.
C26_ValidationEnforcesThresholds ==
    call = "validated" =>
        /\ cfg.power > cfg.active /\ cfg.active > cfg.occasional /\ cfg.occasional > 0
        /\ cfg.very_stale_days > cfg.stale_days /\ cfg.stale_days > 0

----------------------------------------------------------------------------
(* Claims on the shape of the results                                      *)

\* the keys each category has in the result of a one-page list
NonEmptyKeys ==
    LET r == RunAll(PrepareDataframe(<<AllKinds[1]>>, <<1>>, Now0), <<1>>, DefaultCfg, Now0)
    IN  [k \in DOMAIN r |-> DOMAIN r[k]]

\* C27: every category of the result that is a mapping has the same keys for
\* an empty page list as for a non-empty one (users.segments, costs.total_annual_cost,
\* costs.cost_per_active_creator, collaboration.top_collaborators and
\* content_health.archived_pages among them).
C27_SameKeysWhenEmpty ==
    call = "run_all" =>
        \A k \in DOMAIN ret \ {"top_creators"} : DOMAIN ret[k] = NonEmptyKeys[k]

----------------------------------------------------------------------------
(* Claims on the summary                                                   *)

\* C28: for a non-empty page list summary.inactive_users is never negative
\* and is users.segments.non_creators, the number of current users who
\* created no page, also when pages were created by users absent from the
\* user map.
C28_InactiveUsersAreNonCreators ==
    (call = "run_all" /\ pages # <<>>) =>
        /\ ret.summary.inactive_users >= 0
        /\ ret.summary.inactive_users = ret.users.segments.non_creators
        /\ ret.summary.inactive_users
               = Cardinality({u \in UserSet(users) : CreatedBy(u) = 0})

\* C29: the stale counts agree with the six-bucket distribution of the same
\* run: stale_pages is the number of pages in the 'Very Stale' and 'Dead'
\* buckets, very_stale_pages the number in 'Dead', and summary.stale_pages
\* is content_health.stale_pages.
C29_StaleCountsMatchBuckets ==
    (call = "run_all" /\ pages # <<>>) =>
        LET dist == ret.content_health.staleness_distribution
            in_bucket(b) == IF b \in DOMAIN dist THEN dist[b] ELSE 0
        IN  /\ ret.content_health.stale_pages
                   = in_bucket("Very Stale (12-24 months)") + in_bucket("Dead (24+ months)")
            /\ ret.content_health.very_stale_pages = in_bucket("Dead (24+ months)")
            /\ ret.summary.stale_pages = ret.content_health.stale_pages


\* a run under thresholds 180 and 365 over a page edited 364 days ago, one
\* edited exactly 365 and one exactly 730 days ago
C29_Witness ==
    /\ call = "run_all"
    /\ cfg.stale_days = 180
    /\ {DaysSinceEdit(i) : i \in DOMAIN pages} = {364, 365, 730}
    /\ ret.content_health.stale_pages = 2
    /\ ret.content_health.very_stale_pages = 1
    /\ ret.summary.stale_pages = 2

----------------------------------------------------------------------------
(* Claims on the page enrichment                                           *)

\* C30: while enrich_pages walks the page ids, the checkpoint is written
\* exactly once each time the number of enriched pages reaches a positive
\* multiple of 1000: every checkpoint written holds a positive multiple of
\* 1000 pages, and no size is written twice.
C30_CheckpointAtPositiveMultiples ==
    call \in {"fetching", "enriched"} =>
        LET w == locals.checkpoints
        IN  /\ \A k \in DOMAIN w : w[k] > 0 /\ w[k] % CHECKPOINT_EVERY = 0
            /\ \A k, l \in DOMAIN w : k # l => w[k] # w[l]

====
